---- MODULE Spec2Model ----
(***************************************************************************)
(* A model of PathToText.py: class Path2File and main().                   *)
(*                                                                         *)
(* Text is a sequence of characters, each a one-character string, except   *)
(* that a fixed piece of the output format that holds no line break (a     *)
(* heading, a code fence, a tree glyph) is kept as one element.  NL is the *)
(* line feed and CR the carriage return.  In the tree glyphs "|-- " stands *)
(* for U+251C U+2500 U+2500 SPACE, "+-- " for U+2514 U+2500 U+2500 SPACE   *)
(* and "|   " for U+2502 and three spaces; Fence is the three backquotes  *)
(* of a code fence.                                                        *)
(*                                                                         *)
(* A file or directory name is a sequence of characters; a path is the     *)
(* sequence of the names from the input folder down, <<>> being the input  *)
(* folder itself.                                                          *)
(***************************************************************************)
EXTENDS Integers, Sequences, FiniteSets, TLC

\* ------------------------------------------------------------------ bounds

\* The most files the input folder holds when main() is first run.
MaxFiles == 3
\* The length of the texts clean_up_text is tried on alone.
MaxLen == 5

\* ------------------------------------------------------- characters, text

Fence == "<fence>"

NL == "\n"
CR == "\r"

\* The characters of the names used, in code point order (str comparison).
CodePoints == <<".", "M", "a", "b", "c", "d", "e", "f", "g", "h", "i", "k",
                "l", "n", "o", "p", "r", "t", "x", "y", "z">>

Ord(c) == CHOOSE i \in 1..Len(CodePoints) : CodePoints[i] = c

Range(s) == {s[i] : i \in 1..Len(s)}

RECURSIVE Concat(_)
\* "".join(parts)
Concat(parts) ==
    IF parts = <<>> THEN <<>> ELSE Head(parts) \o Concat(Tail(parts))

RECURSIVE Join(_, _)
\* sep.join(parts)
Join(sep, parts) ==
    IF parts = <<>> THEN <<>>
    ELSE IF Len(parts) = 1 THEN parts[1]
    ELSE parts[1] \o sep \o Join(sep, Tail(parts))

\* str.endswith
EndsWith(s, suffix) ==
    /\ Len(suffix) <= Len(s)
    /\ SubSeq(s, Len(s) - Len(suffix) + 1, Len(s)) = suffix

RECURSIVE StrLess(_, _)
\* s < t for two str (by code point, a proper prefix being smaller)
StrLess(s, t) ==
    IF t = <<>> THEN FALSE
    ELSE IF s = <<>> THEN TRUE
    ELSE IF Head(s) # Head(t) THEN Ord(Head(s)) < Ord(Head(t))
    ELSE StrLess(Tail(s), Tail(t))

Reverse(s) == [i \in 1..Len(s) |-> s[Len(s) + 1 - i]]

RECURSIVE Ascending(_)
\* the names of the set S as a list, smallest first
Ascending(S) ==
    IF S = {} THEN <<>>
    ELSE LET least == CHOOSE s \in S : \A t \in S \ {s} : StrLess(s, t)
         IN  <<least>> \o Ascending(S \ {least})

\* The orders in which the system may list the names S of a directory: it
\* promises none; the ascending and the descending one are tried.
Orders(S) == {Ascending(S), Reverse(Ascending(S))}

\* ------------------------------------------------------------------ names

DEFAULT_FILE_NAME == <<"M", "e", "r", "g", "e", "d", ".", "m", "d">>

STANDARD_EXCLUDED_FILE_TYPES ==
    << <<".", "D", "S", "_", "S", "t", "o", "r", "e">>,
       <<".", "g", "i", "t", "i", "g", "n", "o", "r", "e">>,
       <<".", "l", "o", "c", "k">>,
       DEFAULT_FILE_NAME >>

STANDARD_EXCLUDED_PATHS ==
    << <<".", "g", "i", "t">>,
       <<".", "v", "e", "n", "v">>,
       <<"_", "_", "p", "y", "c", "a", "c", "h", "e", "_", "_">>,
       <<".", "r", "u", "f", "f", "_", "c", "a", "c", "h", "e">> >>

GITIGNORE == <<".", "g", "i", "t", "i", "g", "n", "o", "r", "e">>

\* ------------------------------------------------------------ file system

(* A file system below the input folder: a function from the paths that    *)
(* exist to [dir |-> whether it is a directory, content |-> a file's       *)
(* bytes, already read as characters].                                     *)
Name(path) == path[Len(path)]

Parent(path) == SubSeq(path, 1, Len(path) - 1)

IsDir(F, path) == path = <<>> \/ (path \in DOMAIN F /\ F[path].dir)

\* dir_path.iterdir(), and one level of os.scandir, as a set
Entries(F, dir) == {p \in DOMAIN F : Len(p) = Len(dir) + 1 /\ Parent(p) = dir}

\* whether path lies in or below the directory dir (dir itself included)
Under(path, dir) == Len(dir) <= Len(path) /\ SubSeq(path, 1, Len(dir)) = dir

\* str(path.relative_to(self.input_folder))
RelativeStr(path) == Join(<<"/">>, path)

\* PurePath.suffix of a name: from the last dot, unless that dot is the
\* first or the last character
Suffix(name) ==
    LET dots == {i \in 1..Len(name) : name[i] = "."}
    IN  IF dots = {} THEN <<>>
        ELSE LET i == CHOOSE k \in dots : \A j \in dots : j <= k
             IN  IF 1 < i /\ i < Len(name) THEN SubSeq(name, i, Len(name)) ELSE <<>>

\* F with path a file of the given content (open(path, "w") and the writes)
WithFile(F, path, text) ==
    [p \in DOMAIN F \cup {path} |->
        IF p = path THEN [dir |-> FALSE, content |-> text] ELSE F[p]]

\* ------------------------------------------------------------ text mode io

\* os.linesep, here that of a POSIX system
LineSep == <<NL>>

RECURSIVE TextWrite(_)
\* what f.write(text) stores in a file opened in text mode (newline=None):
\* every "\n" becomes os.linesep
TextWrite(text) ==
    IF text = <<>> THEN <<>>
    ELSE (IF Head(text) = NL THEN LineSep ELSE <<Head(text)>>) \o TextWrite(Tail(text))

RECURSIVE TextRead(_)
\* what f.read() returns for a file opened in text mode (newline=None):
\* universal newlines, "\r\n" and "\r" both read as "\n"
TextRead(stored) ==
    IF stored = <<>> THEN <<>>
    ELSE IF Head(stored) = CR
         THEN IF Len(stored) >= 2 /\ stored[2] = NL
              THEN <<NL>> \o TextRead(SubSeq(stored, 3, Len(stored)))
              ELSE <<NL>> \o TextRead(Tail(stored))
         ELSE <<Head(stored)>> \o TextRead(Tail(stored))

\* an undecodable byte of a file, and what decode(errors="replace") makes of it
BadByte == "\\xff"
Replacement == "U+FFFD"

\* content.decode("utf-8", errors="replace")
Decode(bytes) == [i \in 1..Len(bytes) |-> IF bytes[i] = BadByte THEN Replacement ELSE bytes[i]]

\* ------------------------------------------------------------ clean_up_text

RECURSIVE RunLen(_)
\* the number of "\n" text starts with
RunLen(text) ==
    IF text # <<>> /\ Head(text) = NL THEN 1 + RunLen(Tail(text)) ELSE 0

RECURSIVE ReSubNewlines(_)
\* re.sub("\n{3,}", "\n\n", text): leftmost, greedy, non-overlapping
ReSubNewlines(text) ==
    IF text = <<>> THEN <<>>
    ELSE LET n == RunLen(text)
         IN  IF n >= 3
             THEN <<NL, NL>> \o ReSubNewlines(SubSeq(text, n + 1, Len(text)))
             ELSE <<Head(text)>> \o ReSubNewlines(Tail(text))

\* the content clean_up_text leaves in a file that held `stored`
CleanUp(stored) == TextWrite(ReSubNewlines(TextRead(stored)))

\* -------------------------------------------------------------- .gitignore

RECURSIVE SplitLines(_)
\* the lines of a text, without their line ends
SplitLines(text) ==
    IF text = <<>> THEN <<>>
    ELSE LET nls == {i \in 1..Len(text) : text[i] = NL}
         IN  IF nls = {} THEN <<text>>
             ELSE LET i == CHOOSE k \in nls : \A j \in nls : k <= j
                  IN  <<SubSeq(text, 1, i - 1)>> \o SplitLines(SubSeq(text, i + 1, Len(text)))

Whitespace == {" ", "\t", NL, CR}

RECURSIVE LStrip(_)
LStrip(s) == IF s # <<>> /\ Head(s) \in Whitespace THEN LStrip(Tail(s)) ELSE s

\* str.strip()
Strip(s) == Reverse(LStrip(Reverse(LStrip(s))))

\* the list _read_gitignore builds from the file's text
GitignorePatterns(text) ==
    LET stripped == [i \in 1..Len(SplitLines(text)) |-> Strip(SplitLines(text)[i])]
        Keep(line) == line # <<>> /\ Head(line) # "#"
    IN  SelectSeq(stripped, Keep)

\* (mutant) the pattern used as it is
ReplaceStar_Not(pattern) == pattern

RECURSIVE ReplaceStar(_)
\* pattern.replace: every star becomes dot star
ReplaceStar(pattern) ==
    IF pattern = <<>> THEN <<>>
    ELSE (IF Head(pattern) = "*" THEN <<".", "*">> ELSE <<Head(pattern)>>)
         \o ReplaceStar(Tail(pattern))

\* one regular expression atom against one character: "." is any character
\* but a line feed, any other atom here is a literal
AtomMatches(atom, c) == IF atom = "." THEN c # NL ELSE atom = c

RECURSIVE ReFullMatch(_, _)
\* re.fullmatch(regex, s) for a regex of literals, "." and the postfix "*"
\* (the only operators the patterns of this model hold after ReplaceStar)
ReFullMatch(regex, s) ==
    IF regex = <<>> THEN s = <<>>
    ELSE IF Len(regex) >= 2 /\ regex[2] = "*"
         THEN \/ ReFullMatch(SubSeq(regex, 3, Len(regex)), s)
              \/ /\ s # <<>>
                 /\ AtomMatches(regex[1], Head(s))
                 /\ ReFullMatch(regex, Tail(s))
         ELSE /\ s # <<>>
              /\ AtomMatches(regex[1], Head(s))
              /\ ReFullMatch(Tail(regex), Tail(s))

\* Path2File._is_ignored, for the patterns read
IsIgnoredBy(patterns, path) ==
    \E i \in 1..Len(patterns) : ReFullMatch(ReplaceStar(patterns[i]), RelativeStr(path))

\* -------------------------------------------------------- filter, extract

\* (mutant) criteria that forget the included extensions
FileMatchesCriteria_NoInclude(excluded, included, file_name) ==
    \/ excluded = <<>>
    \/ ~ \E i \in 1..Len(excluded) : EndsWith(file_name, excluded[i])

\* (mutant) criteria in which an included extension overrides an excluded one
FileMatchesCriteria_IncludeWins(excluded, included, file_name) ==
    \/ included # <<>> /\ \E i \in 1..Len(included) : EndsWith(file_name, included[i])
    \/ /\ included = <<>>
       /\ ~ \E i \in 1..Len(excluded) : EndsWith(file_name, excluded[i])

\* Path2File._file_matches_criteria
FileMatchesCriteria(excluded, included, file_name) ==
    /\ \/ excluded = <<>>
       \/ ~ \E i \in 1..Len(excluded) : EndsWith(file_name, excluded[i])
    /\ \/ included = <<>>
       \/ \E i \in 1..Len(included) : EndsWith(file_name, included[i])

SupportedExtensions ==
    << <<".", "p", "d", "f">>, <<".", "p", "p", "t", "x">>,
       <<".", "d", "o", "c", "x">>, <<".", "x", "l", "s", "x">> >>

\* self.md.convert(path).text_content: the converter is a library; its text
\* is kept apart from the raw bytes by a mark
MarkItDownText(bytes) == <<"<markitdown>">> \o Decode(bytes)

\* s[1:]
Drop1(s) == IF s = <<>> THEN <<>> ELSE Tail(s)

\* the text _process_file returns for a file it could read
Section(path, bytes) ==
    LET file_extension == Suffix(Name(path))
        file_content ==
            IF \E i \in 1..Len(SupportedExtensions) :
                   EndsWith(file_extension, SupportedExtensions[i])
            THEN MarkItDownText(bytes)
            ELSE Decode(bytes)
    IN  <<"## ">> \o RelativeStr(path) \o <<NL, Fence>> \o Drop1(file_extension)
        \o <<NL>> \o file_content \o <<NL, Fence, NL, NL>>

\* ------------------------------------------------- _map_directory_structure

\* (mutant) the key (x.is_dir(), x.name): files before directories
SortKeyLess_FilesFirst(F, p, q) ==
    \/ ~IsDir(F, p) /\ IsDir(F, q)
    \/ IsDir(F, p) = IsDir(F, q) /\ StrLess(Name(p), Name(q))

\* the sort key (not x.is_dir(), x.name) of entry p below that of entry q
SortKeyLess(F, p, q) ==
    \/ IsDir(F, p) /\ ~IsDir(F, q)
    \/ IsDir(F, p) = IsDir(F, q) /\ StrLess(Name(p), Name(q))

RECURSIVE SortEntries(_, _)
\* entries.sort(key=...), the entries given as a set (their names differ)
SortEntries(F, S) ==
    IF S = {} THEN <<>>
    ELSE LET first == CHOOSE p \in S : \A q \in S \ {p} : SortKeyLess(F, p, q)
         IN  <<first>> \o SortEntries(F, S \ {first})

\* part: the glyph before an entry's name
Part(is_last) == IF is_last THEN "+-- " ELSE "|-- "

\* extension: what an entry adds to the prefix of its children
Extension(is_last) == IF is_last THEN "    " ELSE "|   "

\* the entries recursive_list keeps of a directory
Listed(F, excluded_names, dir_path) ==
    {entry \in Entries(F, dir_path) : Name(entry) \notin excluded_names}

RECURSIVE RecursiveList(_, _, _, _)
RECURSIVE ListFrom(_, _, _, _, _)
\* recursive_list(dir_path, prefix): the lines it yields
RecursiveList(F, excluded_names, dir_path, prefix) ==
    ListFrom(F, excluded_names, SortEntries(F, Listed(F, excluded_names, dir_path)), 1, prefix)

\* the for loop of recursive_list from its i-th entry on
ListFrom(F, excluded_names, entries, i, prefix) ==
    IF i > Len(entries) THEN <<>>
    ELSE LET entry == entries[i]
             is_last == i = Len(entries)
         IN  <<prefix \o <<Part(is_last)>> \o Name(entry)>>
             \o (IF IsDir(F, entry)
                 THEN RecursiveList(F, excluded_names, entry, prefix \o <<Extension(is_last)>>)
                 ELSE <<>>)
             \o ListFrom(F, excluded_names, entries, i + 1, prefix)

\* the names the tree leaves out: self.excluded_folders + self.excluded_file_types
TreeExcludedNames(folders, file_types) == Range(folders \o file_types)

\* Path2File._map_directory_structure
MapDirectoryStructure(F, folders, file_types) ==
    Join(<<NL>>, RecursiveList(F, TreeExcludedNames(folders, file_types), <<>>, <<>>))

\* ------------------------------------------------------------ write_to_file

\* Path2File.output_file for an output_path that is set (main always sets it)
OutputFile(F, path) ==
    IF IsDir(F, path) THEN path \o <<DEFAULT_FILE_NAME>> ELSE path

\* what write_to_file writes when it writes
Document(tree, data) ==
    <<"# Folder Structure", NL>> \o <<Fence, NL>> \o tree \o <<NL, Fence>>
    \o (IF data # <<>>
        THEN <<NL, NL, "# File Contents", NL>> \o Concat(data)
        ELSE <<>>)

\* ----------------------------------------------------------------- inputs

A_PY == <<"a", ".", "p", "y">>
B_TXT == <<"b", ".", "t", "x", "t">>
C_PY == <<"c", ".", "p", "y">>
Y_TXT == <<"y", ".", "t", "x", "t">>
F_TXT == <<"f", ".", "t", "x", "t">>
G_PY == <<"g", ".", "p", "y">>
H_PY == <<"h", ".", "p", "y">>
X == <<"x">>
Z == <<"z">>
DOT_GIT == <<".", "g", "i", "t">>
O_MD == <<"o", ".", "m", "d">>
DOT_PY == <<".", "p", "y">>
DOT_TXT == <<".", "t", "x", "t">>

\* The files the input folder may hold at first, by path.
Components ==
    { <<A_PY>>, <<B_TXT>>, <<C_PY>>, <<Y_TXT>>,
      <<X, F_TXT>>, <<X, Z, G_PY>>, <<DOT_GIT, H_PY>> }

\* The bytes of each of them.
Bytes(path) ==
    CASE path = <<A_PY>> -> <<"p">>
      [] path = <<B_TXT>> -> <<"t", NL, NL, NL, "u">>
      [] path = <<C_PY>> -> <<>>
      [] path = <<Y_TXT>> -> <<"w", CR, NL, "v">>
      [] path = <<X, F_TXT>> -> <<BadByte>>
      [] path = <<X, Z, G_PY>> -> <<"g", NL>>
      [] OTHER -> <<"h">>

\* The texts of the .gitignore at the root; <<>> stands for no such file.
GitignoreTexts ==
    { <<>>,
      <<"*", ".", "t", "x", "t", NL>>,
      <<"#", " ", "c", NL, NL, " ", "x", "*", " ", NL, "a", ".", "p", "y">> }

\* the directories, but the root, that hold the given files
Ancestors(files) ==
    UNION {{SubSeq(f, 1, n) : n \in 1..(Len(f) - 1)} : f \in files}

\* the file system holding the given files, and a .gitignore of the given text
MakeFS(files, gitignore) ==
    LET dirs == Ancestors(files)
        extra == IF gitignore = <<>> THEN {} ELSE {<<GITIGNORE>>}
    IN  [p \in files \cup dirs \cup extra |->
            IF p \in dirs THEN [dir |-> TRUE, content |-> <<>>]
            ELSE IF p \in files THEN [dir |-> FALSE, content |-> Bytes(p)]
            ELSE [dir |-> FALSE, content |-> gitignore]]

\* The files whose extraction may raise.
Flaky == {<<A_PY>>, <<X, F_TXT>>}

\* What an earlier run, or anyone, may have left in the output file.
OldOutput == <<"o", "l", "d", NL, NL, NL, NL>>

\* main(): Path(args.directory) / (args.output_name or DEFAULT_FILE_NAME)
OutputPath(output_name) ==
    <<IF output_name # <<>> THEN output_name ELSE DEFAULT_FILE_NAME>>

\* The command lines tried: argparse's namespace, output_name <<>> being None.
Args(output_name, exclude_types, include_types, exclude_folders, map_only_flag) ==
    [output_name |-> output_name, exclude_types |-> exclude_types,
     include_types |-> include_types, exclude_folders |-> exclude_folders,
     map_only |-> map_only_flag]

ArgsChoices ==
    {Args(<<>>, ex, inc, <<>>, FALSE) :
        ex \in {<<>>, <<DOT_PY>>}, inc \in {<<>>, <<DOT_PY>>, <<DOT_PY, DOT_TXT>>}}
    \cup {Args(out, <<>>, <<>>, <<>>, mo) : out \in {<<>>, O_MD, X}, mo \in BOOLEAN}
    \cup {Args(<<>>, <<>>, <<>>, <<X>>, FALSE)}

\* -------------------------------------------------------------- the program

VARIABLES
    fs,                   \* the file system below the input folder
    fs_at_start,          \* what it was when main() was started (history)
    failing,              \* the files whose extraction raises
    args,                 \* the command line of the runs
    pc,                   \* where main() is
    included_file_types,  \* Path2File's fields
    excluded_file_types,
    excluded_folders,
    map_only,
    ignored_patterns,
    output_path,
    paths,                \* Path.walk's stack of directories to list
    root_path,            \* the directory walk yielded last
    files,                \* the file names of that directory not yet handled
    files_data,           \* the sections collected
    visited,              \* the files the loop has reached, in order (history)
    walked,               \* the directories walk has yielded (history)
    stdout,               \* what the run printed
    result                \* what main() returned

vars == <<fs, fs_at_start, failing, args, pc, included_file_types, excluded_file_types,
          excluded_folders, map_only, ignored_patterns, output_path, paths,
          root_path, files, files_data, visited, walked, stdout, result>>

env == <<fs_at_start, failing, args>>
processor == <<included_file_types, excluded_file_types, excluded_folders, map_only,
               output_path>>
walk == <<paths, root_path, files, visited, walked>>

Msg(kind, path) == [kind |-> kind, path |-> path]

Init ==
    /\ args \in ArgsChoices
    /\ \E chosen \in SUBSET Components, gitignore \in GitignoreTexts, previous \in BOOLEAN :
          /\ Cardinality(chosen) <= MaxFiles
          \* an output file of an earlier run: it ends with a standard excluded
          \* type under its default name, whatever the filters, so it is left to
          \* the runs that give no filter
          /\ previous => (args.include_types = <<>> /\ args.exclude_types = <<>>)
          /\ fs = LET F == MakeFS(chosen, gitignore)
                 IN  IF previous
                     THEN WithFile(F, OutputFile(F, OutputPath(args.output_name)), OldOutput)
                     ELSE F
          /\ failing \in {{}} \cup {{f} : f \in chosen \cap Flaky}
    /\ fs_at_start = fs
    /\ pc = "idle"
    /\ included_file_types = <<>>
    /\ excluded_file_types = <<>>
    /\ excluded_folders = <<>>
    /\ map_only = FALSE
    /\ ignored_patterns = <<>>
    /\ output_path = <<>>
    /\ paths = <<>>
    /\ root_path = <<>>
    /\ files = <<>>
    /\ files_data = <<>>
    /\ visited = <<>>
    /\ walked = {}
    /\ stdout = <<>>
    /\ result = "none yet"

\* __init__: list(self.STANDARD_EXCLUDED_FILE_TYPES) + excluded_file_types
ExcludedFileTypes(given) == STANDARD_EXCLUDED_FILE_TYPES \o given

\* __init__: list(self.STANDARD_EXCLUDED_PATHS) + excluded_folders
ExcludedFolders(given) == STANDARD_EXCLUDED_PATHS \o given

\* main() up to the call of fetch_all_files, Path2File.__init__ included
Main ==
    /\ pc = "idle"
    /\ output_path' = OutputPath(args.output_name)
    /\ included_file_types' = args.include_types
    /\ excluded_file_types' = ExcludedFileTypes(args.exclude_types)
    /\ excluded_folders' = ExcludedFolders(args.exclude_folders)
    /\ map_only' = args.map_only
    /\ ignored_patterns' = <<>>
    /\ stdout' = <<Msg("fetching", <<>>)>>
    /\ paths' = <<>>
    /\ root_path' = <<>>
    /\ files' = <<>>
    /\ files_data' = <<>>
    /\ visited' = <<>>
    /\ walked' = {}
    /\ result' = "none yet"
    /\ pc' = "fetch"
    /\ UNCHANGED <<fs, env>>

\* (mutant) fetch_all_files without its map-only return
FetchSkipped_Never(flag) == FALSE

\* fetch_all_files: `if self.map_only: return []`
FetchSkipped(flag) == flag

\* fetch_all_files up to its loop
FetchAllFiles ==
    /\ pc = "fetch"
    /\ IF FetchSkipped(map_only)
       THEN /\ pc' = "write"
            /\ UNCHANGED <<ignored_patterns, paths>>
       ELSE /\ ignored_patterns' =
                  IF <<GITIGNORE>> \in DOMAIN fs
                  THEN GitignorePatterns(TextRead(fs[<<GITIGNORE>>].content))
                  ELSE ignored_patterns
            /\ paths' = <<<<>>>>
            /\ pc' = "walk"
    /\ UNCHANGED <<fs, env, processor, root_path, files, files_data, visited,
                   walked, stdout, result>>

\* (mutant) a filter that forgets the ignore patterns
KeptDirectories_NamesOnly(patterns, folders, dir, directories) ==
    LET Kept(d) == d \notin Range(folders)
    IN  SelectSeq(directories, Kept)

\* the directories of `directories` the loop keeps
KeptDirectories(patterns, folders, dir, directories) ==
    LET Kept(d) == ~IsIgnoredBy(patterns, dir \o <<d>>) /\ d \notin Range(folders)
    IN  SelectSeq(directories, Kept)

\* Path.walk yields the next directory, its entries in the order the system
\* lists them, and the loop's body filters `directories` in place
WalkYield ==
    /\ pc = "walk"
    /\ paths # <<>>
    /\ LET dir == paths[Len(paths)]
           rest == SubSeq(paths, 1, Len(paths) - 1)
       IN  \E directories \in Orders({Name(e) : e \in {e \in Entries(fs, dir) : IsDir(fs, e)}}),
              filenames \in Orders({Name(e) : e \in {e \in Entries(fs, dir) : ~IsDir(fs, e)}}) :
              LET kept == KeptDirectories(ignored_patterns, excluded_folders, dir, directories)
              IN  /\ paths' = rest \o Reverse([i \in 1..Len(kept) |-> dir \o <<kept[i]>>])
                  /\ root_path' = dir
                  /\ files' = filenames
                  /\ walked' = walked \cup {dir}
                  /\ pc' = IF filenames = <<>> THEN "walk" ELSE "files"
    /\ UNCHANGED <<fs, env, processor, ignored_patterns, files_data, visited,
                   stdout, result>>

\* Path2File._process_file: <<the section or <<>> for None, what it prints>>
ProcessFile(F, fail, file_path) ==
    IF file_path \in fail
    THEN <<<<>>, Msg("error", file_path)>>
    ELSE <<Section(file_path, F[file_path].content), Msg("processed", file_path)>>

\* (mutant) the loop without `if file_data`
Collect_Always(data, file_data) == Append(data, file_data)

\* `if file_data: files_data.append(file_data)`
Collect(data, file_data) ==
    IF file_data # <<>> THEN Append(data, file_data) ELSE data

\* one turn of `for file in files`
LoopFile ==
    /\ pc = "files"
    /\ files # <<>>
    /\ LET file_path == root_path \o <<Head(files)>>
       IN  /\ visited' = Append(visited, file_path)
           /\ IF IsIgnoredBy(ignored_patterns, file_path)
              THEN /\ stdout' = Append(stdout, Msg("skip", file_path))
                   /\ UNCHANGED files_data
              ELSE IF FileMatchesCriteria(excluded_file_types, included_file_types,
                                          Name(file_path))
              THEN LET done == ProcessFile(fs, failing, file_path)
                   IN  /\ stdout' = Append(stdout, done[2])
                       /\ files_data' = Collect(files_data, done[1])
              ELSE UNCHANGED <<stdout, files_data>>
    /\ files' = Tail(files)
    /\ pc' = IF Tail(files) = <<>> THEN "walk" ELSE "files"
    /\ UNCHANGED <<fs, env, processor, ignored_patterns, paths, root_path,
                   walked, result>>

\* walk is exhausted: fetch_all_files returns files_data
FetchReturn ==
    /\ pc = "walk"
    /\ paths = <<>>
    /\ pc' = "write"
    /\ UNCHANGED <<fs, env, processor, ignored_patterns, walk, files_data,
                   stdout, result>>

\* (mutant) write_to_file that writes whenever it is called
NothingToWrite_Never(data, flag) == FALSE

\* write_to_file: `if not files_data and not self.map_only`
NothingToWrite(data, flag) == data = <<>> /\ ~flag

\* write_to_file, and main()'s return of None when it wrote nothing
WriteToFile ==
    /\ pc = "write"
    /\ IF NothingToWrite(files_data, map_only)
       THEN /\ stdout' = Append(stdout, Msg("nothing", <<>>))
            /\ result' = "None"
            /\ pc' = "done"
            /\ UNCHANGED fs
       ELSE LET out == OutputFile(fs, output_path)
                opened == WithFile(fs, out, <<>>)
                tree == MapDirectoryStructure(opened, excluded_folders, excluded_file_types)
            IN  /\ fs' = WithFile(fs, out, TextWrite(Document(tree, files_data)))
                /\ stdout' = Append(stdout, Msg("cleaning", <<>>))
                /\ pc' = "clean"
                /\ UNCHANGED result
    /\ UNCHANGED <<env, processor, ignored_patterns, walk, files_data>>

\* clean_up_text, and main()'s return of the output path
CleanUpText ==
    /\ pc = "clean"
    /\ LET out == OutputFile(fs, output_path)
       IN  fs' = WithFile(fs, out, CleanUp(fs[out].content))
    /\ stdout' = Append(stdout, Msg("done", <<>>))
    /\ result' = "output_file_path"
    /\ pc' = "done"
    /\ UNCHANGED <<env, processor, ignored_patterns, walk, files_data>>

Next ==
    \/ Main
    \/ FetchAllFiles
    \/ WalkYield
    \/ LoopFile
    \/ FetchReturn
    \/ WriteToFile
    \/ CleanUpText

Spec == Init /\ [][Next]_vars

\* ---------------------------------------------- what the claims speak about

\* the file the run writes
Out == OutputFile(fs, output_path)

\* write_to_file has written the output file in this run
Wrote == pc = "clean" \/ (pc = "done" /\ result = "output_file_path")

\* fetch_all_files has returned
Fetched == pc \in {"write", "clean", "done"}

\* the files below the input folder
FilesOf(F) == {p \in DOMAIN F : ~F[p].dir}

\* sub occurs in text, as consecutive elements
Occurs(sub, text) ==
    \E i \in 1..(Len(text) - Len(sub) + 1) :
        text[i] = sub[1] /\ SubSeq(text, i, i + Len(sub) - 1) = sub

\* the heading of the section of a file
Heading(path) == <<"## ">> \o RelativeStr(path) \o <<NL>>

\* a text holds a section of the file
HasSection(text, path) == Occurs(Heading(path), text)

\* a collected section is that of the file: it begins with its heading
IsSectionOf(section, path) ==
    /\ Len(Heading(path)) <= Len(section)
    /\ SubSeq(section, 1, Len(Heading(path))) = Heading(path)

\* the directory tree of a text lists the name
ListsName(text, name) ==
    \/ Occurs(<<"|-- ">> \o name \o <<NL>>, text)
    \/ Occurs(<<"+-- ">> \o name \o <<NL>>, text)

\* the run printed the message
Printed(kind, path) == \E i \in 1..Len(stdout) : stdout[i] = Msg(kind, path)

\* the excluded extensions and folders as the claims name them: the standard
\* entries plus the caller's
ClaimedExcludedTypes == Range(STANDARD_EXCLUDED_FILE_TYPES) \cup Range(args.exclude_types)
ClaimedExcludedFolders == Range(STANDARD_EXCLUDED_PATHS) \cup Range(args.exclude_folders)

\* a name ends with an excluded / an included extension
EndsExcluded(name) == \E ext \in ClaimedExcludedTypes : EndsWith(name, ext)
EndsIncluded(name) == \E ext \in Range(args.include_types) : EndsWith(name, ext)

\* the eligibility of a name as the specification words it
ClaimedEligible(name) ==
    /\ (ClaimedExcludedTypes = {} \/ ~EndsExcluded(name))
    /\ (args.include_types = <<>> \/ EndsIncluded(name))

\* the pattern lines of the root .gitignore, read off the file system: its
\* lines stripped, but the empty ones and the comments
GitignoreLines ==
    IF <<GITIGNORE>> \in DOMAIN fs_at_start
    THEN GitignorePatterns(TextRead(fs_at_start[<<GITIGNORE>>].content))
    ELSE <<>>

\* the ignore patterns of the run: what a run without map-only has read
\* (C4 checks that they are the pattern lines of the root .gitignore)
ClaimedPatterns == ignored_patterns

\* a directory the traversal is to prune
ClaimedPruned(dir) ==
    /\ dir # <<>>
    /\ IsDir(fs, dir)
    /\ (Name(dir) \in ClaimedExcludedFolders \/ IsIgnoredBy(ClaimedPatterns, dir))

\* the path lies in or below a directory to prune
BelowPruned(path) ==
    \E n \in 1..Len(path) : ClaimedPruned(SubSeq(path, 1, n))

\* ------------------------------------------------------------------- C2

(* C2: when fetch_all_files has yielded no section and map-only is false,  *)
(* write_to_file reports nothing-to-do and writes nothing: the file system *)
(* is as it was (the output file not created, or its content unchanged),   *)
(* main returns None and clean_up_text is not run.                         *)
C2_NoOp ==
    [][(pc = "write" /\ files_data = <<>> /\ ~map_only)
        => /\ fs' = fs
           /\ stdout' = Append(stdout, Msg("nothing", <<>>))
           /\ pc' = "done"
           /\ result' = "None"]_vars

\* C2's case: a run that ended as a no-op and left an existing output alone
C2_Witness ==
    /\ pc = "done"
    /\ result = "None"
    /\ ~map_only
    /\ Printed("nothing", <<>>)
    /\ ~Printed("cleaning", <<>>)
    /\ Out \in DOMAIN fs
    /\ fs[Out].content = OldOutput

\* ------------------------------------------------------------------- C8

(* C8: with map-only set, fetch_all_files returns an empty list and reads  *)
(* neither .gitignore nor any file (no directory is walked, no file is     *)
(* reached, nothing is printed about a file), and write_to_file still      *)
(* writes: the output file holds the Folder Structure heading and the      *)
(* fenced tree, and no File Contents section.                              *)
C8_MapOnly ==
    (map_only /\ pc # "idle" /\ pc # "fetch")
    => /\ files_data = <<>>
       /\ ignored_patterns = <<>>
       /\ visited = <<>>
       /\ walked = {}
       /\ \A i \in 1..Len(stdout) : stdout[i].kind \notin {"skip", "processed", "error", "nothing"}
       /\ result # "None"
       /\ pc = "clean"
          => /\ fs[Out].content =
                    <<"# Folder Structure", NL, Fence, NL>>
                    \o MapDirectoryStructure(fs, excluded_folders, excluded_file_types)
                    \o <<NL, Fence>>
             /\ "# File Contents" \notin Range(fs[Out].content)
             /\ "## " \notin Range(fs[Out].content)
       /\ Wrote
          => /\ "# File Contents" \notin Range(fs[Out].content)
             /\ \A f \in FilesOf(fs) : ~HasSection(fs[Out].content, f)

\* C8's case: a map-only run has written, in a folder whose .gitignore
\* holds patterns and that holds a file a run without map-only would have
\* extracted
C8_Witness ==
    /\ map_only
    /\ pc = "clean"
    /\ GitignoreLines # <<>>
    /\ \E f \in FilesOf(fs) :
          /\ f # Out
          /\ ClaimedEligible(Name(f))
          /\ \A n \in 1..Len(f) :
                /\ ~IsIgnoredBy(GitignoreLines, SubSeq(f, 1, n))
                /\ Name(SubSeq(f, 1, n)) \notin ClaimedExcludedFolders

\* ------------------------------------------------------------------- C1

\* the files whose name ends with an excluded extension
ExcludedFiles == {f \in FilesOf(fs) : EndsExcluded(Name(f))}

(* C1 as stated: a file whose name ends with an excluded extension appears *)
(* nowhere in the output the run writes, neither as a section nor in the   *)
(* directory tree (said of the runs that extract contents).                *)
C1_Original ==
    (Wrote /\ ~map_only) => \A f \in ExcludedFiles :
                 /\ ~HasSection(fs[Out].content, f)
                 /\ ~ListsName(fs[Out].content, Name(f))

(* C1, amended: a file whose name ends with an excluded extension is never *)
(* extracted and gets no content section in the output, whatever the       *)
(* included extensions are; the directory tree leaves its name out when    *)
(* the whole name is an excluded entry (or it lies below a directory the   *)
(* tree leaves out), and lists it otherwise.                               *)
C1_NoSection ==
    \A f \in ExcludedFiles :
        /\ \A i \in 1..Len(files_data) : ~IsSectionOf(files_data[i], f)
        /\ ~Printed("processed", f)
        /\ ~Printed("error", f)
        /\ Wrote
           => /\ ~HasSection(fs[Out].content, f)
              /\ Name(f) \in ClaimedExcludedTypes => ~ListsName(fs[Out].content, Name(f))
              /\ ListsName(fs[Out].content, Name(f))
                 <=> \A n \in 1..Len(f) :
                         Name(SubSeq(f, 1, n)) \notin ClaimedExcludedTypes \cup ClaimedExcludedFolders

\* C1's case: the run has written, and the loop had reached a file whose
\* name ends with an excluded and with an included extension
C1_Witness ==
    /\ Wrote
    /\ files_data # <<>>
    /\ \E f \in ExcludedFiles :
          /\ EndsIncluded(Name(f))
          /\ \E i \in 1..Len(visited) : visited[i] = f

\* ------------------------------------------------------------------- C10

(* C10 as stated: the output file of the run appears nowhere in the        *)
(* document the run writes, neither in the directory tree nor as a content *)
(* section (said of the runs that extract contents).                       *)
C10_OutputNotInDocument ==
    (Wrote /\ ~map_only)
    => /\ ~ListsName(fs[Out].content, Name(Out))
       /\ ~HasSection(fs[Out].content, Out)

\* ------------------------------------------------------------------- C3

\* the paths the run has touched: directories walked, files reached,
\* files a message is about, files a section is of
Touched(path) ==
    \/ path \in walked
    \/ \E i \in 1..Len(visited) : visited[i] = path
    \/ \E i \in 1..Len(stdout) : stdout[i].kind \in {"skip", "processed", "error"}
                                  /\ stdout[i].path = path
    \/ \E i \in 1..Len(files_data) : IsSectionOf(files_data[i], path)

(* C3: a directory whose name is an excluded folder (standard or given) or *)
(* whose relative path matches an ignore pattern is pruned: the traversal  *)
(* visits neither it nor anything below it, and no file below it is        *)
(* reached, reported or given a section, in the list or in the output.     *)
C3_Pruned ==
    (~map_only /\ pc \notin {"idle", "fetch"})
    => \A p \in DOMAIN fs :
          BelowPruned(p)
          => /\ ~Touched(p)
             /\ p \notin Range(paths)
             /\ (Wrote /\ ~fs[p].dir) => ~HasSection(fs[Out].content, p)

\* C3's case: fetch_all_files has returned in a folder where a directory
\* pruned for its name and one pruned by a pattern both hold a file
C3_Witness ==
    /\ ~map_only
    /\ Wrote
    /\ \E d \in DOMAIN fs :
          /\ fs[d].dir
          /\ Name(d) \in ClaimedExcludedFolders
          /\ \E f \in FilesOf(fs) : Under(f, d)
    /\ \E d \in DOMAIN fs :
          /\ fs[d].dir
          /\ Name(d) \notin ClaimedExcludedFolders
          /\ IsIgnoredBy(ClaimedPatterns, d)
          /\ \E f \in FilesOf(fs) : Under(f, d) /\ ClaimedEligible(Name(f))

\* ------------------------------------------------------------------- C4

RECURSIVE GlobMatch(_, _)
\* s fully matches the line, "*" standing for any sequence of characters and
\* every other character for itself
GlobMatch(line, s) ==
    IF line = <<>> THEN s = <<>>
    ELSE IF Head(line) = "*"
         THEN GlobMatch(Tail(line), s) \/ (s # <<>> /\ GlobMatch(line, Tail(s)))
         ELSE s # <<>> /\ Head(s) = Head(line) /\ GlobMatch(Tail(line), Tail(s))

\* the relative path of the file fully matches a line of the root .gitignore
MatchesGitignore(f) ==
    \E i \in 1..Len(ClaimedPatterns) : GlobMatch(ClaimedPatterns[i], RelativeStr(f))

\* no section of the file has been collected
NoSectionOf(f) == \A i \in 1..Len(files_data) : ~IsSectionOf(files_data[i], f)

(* C4 as stated: a file whose relative path fully matches a line of the    *)
(* root .gitignore gets no section and a skip message is printed for it    *)
(* (said of the runs that extract contents, once fetch_all_files is back). *)
C4_Original ==
    (pc = "write" /\ ~map_only)
    => /\ ignored_patterns = GitignoreLines
       /\ \A f \in FilesOf(fs) :
             MatchesGitignore(f) => NoSectionOf(f) /\ Printed("skip", f)

(* C4, amended: with map-only false, a file whose relative path fully      *)
(* matches a line of the root .gitignore gets no section; a skip message   *)
(* is printed for it exactly when it lies below no pruned directory (a     *)
(* file below a pruned directory is never reached, so nothing is printed). *)
C4_Skipped ==
    (pc = "write" /\ ~map_only)
    => /\ ignored_patterns = GitignoreLines
       /\ \A f \in FilesOf(fs) :
             MatchesGitignore(f)
             => /\ NoSectionOf(f)
                /\ ~Printed("processed", f)
                /\ Printed("skip", f) <=> ~BelowPruned(f)

\* C4's case: fetch_all_files is back; one matching file was reached and
\* skipped with its message, another lies below a pruned directory
C4_Witness ==
    /\ pc = "write"
    /\ ~map_only
    /\ \E f \in FilesOf(fs) : MatchesGitignore(f) /\ Printed("skip", f)
    /\ \E f \in FilesOf(fs) : MatchesGitignore(f) /\ BelowPruned(f) /\ ~Printed("skip", f)

\* ------------------------------------------------------------------- C5

\* a reached file that is to get a section: not ignored, and eligible
Wanted(f) == ~IsIgnoredBy(ClaimedPatterns, f) /\ ClaimedEligible(Name(f))

\* the section of each file of a list, in the order of the list
SectionsOf(list) ==
    [i \in 1..Len(list) |-> Section(list[i], fs_at_start[list[i]].content)]

\* no extraction has failed
NoFailure == \A i \in 1..Len(stdout) : stdout[i].kind # "error"

(* C5: with map-only false and no extraction failure, the sections are     *)
(* exactly one per reached, non-ignored file whose name is eligible (no    *)
(* excluded extension, and an included one when any is given), in the      *)
(* order in which the traversal reached the files: in the list             *)
(* fetch_all_files returns and, after the File Contents heading, in the    *)
(* output; with no such file nothing is written.  The files reached are    *)
(* those below no pruned directory, each once.                             *)
C5_Sections ==
    (~map_only /\ NoFailure)
    => /\ Fetched => files_data = SectionsOf(SelectSeq(visited, Wanted))
       /\ Fetched
          => /\ Range(visited) = {f \in FilesOf(fs_at_start) : ~BelowPruned(f)}
             /\ Len(visited) = Cardinality(Range(visited))
       /\ pc = "clean"
          => \E n \in 1..Len(fs[Out].content) :
                /\ fs[Out].content[n] = "# File Contents"
                /\ "## " \notin Range(SubSeq(fs[Out].content, 1, n))
                /\ SubSeq(fs[Out].content, n + 1, Len(fs[Out].content))
                     = <<NL>> \o Concat(SectionsOf(SelectSeq(visited, Wanted)))
       /\ (pc = "done" /\ result = "None") => SelectSeq(visited, Wanted) = <<>>

\* C5's case: the documented example, a.py, b.txt and c.py with .py included,
\* written with the two sections of a.py and c.py
C5_Witness ==
    /\ pc = "clean"
    /\ ~map_only
    /\ args.include_types = <<DOT_PY>>
    /\ args.exclude_types = <<>>
    /\ FilesOf(fs) = {<<A_PY>>, <<B_TXT>>, <<C_PY>>, Out}
    /\ Len(files_data) = 2
    /\ HasSection(fs[Out].content, <<A_PY>>)
    /\ HasSection(fs[Out].content, <<C_PY>>)
    /\ ~HasSection(fs[Out].content, <<B_TXT>>)

\* ------------------------------------------------------------------- C9

\* a reached file whose extraction is tried and fails / succeeds
Fails(f) == Wanted(f) /\ f \in failing
Succeeds(f) == Wanted(f) /\ f \notin failing

(* C9: an extraction that fails is caught: an error is printed for the     *)
(* file, it gets no section, and the run goes on: every file below no      *)
(* pruned directory is still reached, and every other wanted file, reached *)
(* before or after the failing one, has its section in the list and in the *)
(* output.                                                                 *)
C9_SoftFailure ==
    (~map_only /\ Fetched)
    => /\ files_data = SectionsOf(SelectSeq(visited, Succeeds))
       /\ \A i \in 1..Len(visited) :
             Fails(visited[i])
             => /\ Printed("error", visited[i])
                /\ ~Printed("processed", visited[i])
                /\ NoSectionOf(visited[i])
       /\ Range(visited) = {f \in FilesOf(fs_at_start) : ~BelowPruned(f)}
       /\ Wrote
          => \A i \in 1..Len(visited) :
                /\ Succeeds(visited[i]) => HasSection(fs[Out].content, visited[i])
                /\ Fails(visited[i]) => ~HasSection(fs[Out].content, visited[i])

\* C9's case: the run has written after an extraction failed, with a file
\* extracted before the failing one and a file extracted after it
C9_Witness ==
    /\ Wrote
    /\ ~map_only
    /\ \E i, j, k \in 1..Len(visited) :
          /\ i < j
          /\ j < k
          /\ Succeeds(visited[i])
          /\ Fails(visited[j])
          /\ Succeeds(visited[k])
          /\ Printed("error", visited[j])

\* ------------------------------------------------------------------- C7

\* the lines of the tree in the output file, between the two code fences
\* that follow the Folder Structure heading
TreeLines ==
    LET text == fs[Out].content
        close == CHOOSE i \in 5..Len(text) :
                     text[i] = Fence /\ \A j \in 5..(i - 1) : text[j] # Fence
    IN  SplitLines(SubSeq(text, 5, close - 2))

Glyphs == {"|-- ", "+-- "}

\* where the glyph of a line stands; what precedes it is the prefix, what
\* follows it the name
GlyphAt(line) ==
    CHOOSE i \in 1..Len(line) : line[i] \in Glyphs /\ \A j \in 1..(i - 1) : line[j] \notin Glyphs

Glyph(line) == line[GlyphAt(line)]
Prefix(line) == SubSeq(line, 1, GlyphAt(line) - 1)
Depth(line) == GlyphAt(line) - 1
LineName(line) == SubSeq(line, GlyphAt(line) + 1, Len(line))

\* the line of the directory that holds the entry of line i: the nearest
\* line above it that is one level up; 0 at the top level or when there is none
ParentLine(lines, i) ==
    LET above == {j \in 1..(i - 1) : Depth(lines[j]) = Depth(lines[i]) - 1}
    IN  IF Depth(lines[i]) = 0 \/ above = {} THEN 0
        ELSE CHOOSE j \in above : \A k \in above : k <= j

RECURSIVE LinePath(_, _)
\* the path of the entry of line i
LinePath(lines, i) ==
    IF ParentLine(lines, i) = 0 THEN <<LineName(lines[i])>>
    ELSE LinePath(lines, ParentLine(lines, i)) \o <<LineName(lines[i])>>

\* the names the tree is to leave out
ClaimedHidden == ClaimedExcludedTypes \cup ClaimedExcludedFolders

\* the entries the tree is to list: those with no left-out name on their path
ClaimedShown ==
    {p \in DOMAIN fs : \A n \in 1..Len(p) : Name(SubSeq(p, 1, n)) \notin ClaimedHidden}

\* directories before files, and by name within each
ClaimedBefore(p, q) ==
    \/ fs[p].dir /\ ~fs[q].dir
    \/ fs[p].dir = fs[q].dir /\ StrLess(Name(p), Name(q))

\* the folder of the documented example, and its tree
ExampleShown == {<<X>>, <<X, F_TXT>>, <<Y_TXT>>}
ExampleLines ==
    << <<"|-- ">> \o X,
       <<"|   ", "+-- ">> \o F_TXT,
       <<"+-- ">> \o Y_TXT >>

(* C7: the tree in the output lists every entry that is not left out, once *)
(* (an entry being left out with everything below it); the entries of one  *)
(* directory stand directories first and by name within each group; a line *)
(* is the prefix, then "|-- " for an entry that is not the last of its     *)
(* directory and "+-- " for the last, then the name; the entries of a      *)
(* directory follow its line at once, their prefix being the directory's   *)
(* extended by "|   " when the directory is not the last of its siblings   *)
(* and by four spaces when it is.  The example folder gives its three      *)
(* lines.                                                                  *)
C7_Tree ==
    pc = "clean"
    => LET lines == TreeLines
           N == Len(lines)
           Siblings(i, j) == ParentLine(lines, i) = ParentLine(lines, j)
                             /\ Depth(lines[i]) = Depth(lines[j])
       IN  /\ \A i \in 1..N :
                 /\ \E g \in 1..Len(lines[i]) : lines[i][g] \in Glyphs
                 /\ Depth(lines[i]) > 0
                    => /\ ParentLine(lines, i) > 0
                       /\ \A k \in (ParentLine(lines, i) + 1)..(i - 1) :
                             Depth(lines[k]) >= Depth(lines[i])
           /\ {LinePath(lines, i) : i \in 1..N} = ClaimedShown
           /\ N = Cardinality(ClaimedShown)
           /\ \A i \in 1..N :
                 (\E p \in ClaimedShown : Parent(p) = LinePath(lines, i))
                 => i < N /\ ParentLine(lines, i + 1) = i
           /\ \A i, j \in 1..N :
                 (i < j /\ Siblings(i, j))
                 => ClaimedBefore(LinePath(lines, i), LinePath(lines, j))
           /\ \A i \in 1..N :
                 Glyph(lines[i]) =
                    IF \E j \in (i + 1)..N : Siblings(i, j) THEN "|-- " ELSE "+-- "
           /\ \A i \in 1..N :
                 Prefix(lines[i]) =
                    IF Depth(lines[i]) = 0 THEN <<>>
                    ELSE LET up == lines[ParentLine(lines, i)]
                         IN  Prefix(up) \o <<IF Glyph(up) = "|-- " THEN "|   " ELSE "    ">>
           /\ ClaimedShown = ExampleShown => lines = ExampleLines

\* C7's case: the tree of the example folder, x holding f.txt beside y.txt,
\* has been written
C7_Witness ==
    /\ pc = "clean"
    /\ ClaimedShown = ExampleShown
    /\ TreeLines = ExampleLines

\* ------------------------------------------------------------------- C6

\* The texts clean_up_text is tried on: line feeds, carriage returns and a
\* letter, up to MaxLen characters.
Texts == UNION {[1..n -> {NL, CR, "a"}] : n \in 0..MaxLen}

\* clean_up_text alone: main() is about to call it on an output file that
\* holds any of the texts; fs_at_start keeps the file as it is found
InitClean ==
    /\ args = Args(<<>>, <<>>, <<>>, <<>>, FALSE)
    /\ output_path = OutputPath(args.output_name)
    /\ \E text \in Texts : fs = WithFile(MakeFS({}, <<>>), output_path, text)
    /\ fs_at_start = fs
    /\ failing = {}
    /\ pc = "clean"
    /\ included_file_types = args.include_types
    /\ excluded_file_types = ExcludedFileTypes(args.exclude_types)
    /\ excluded_folders = ExcludedFolders(args.exclude_folders)
    /\ map_only = args.map_only
    /\ ignored_patterns = <<>>
    /\ paths = <<>>
    /\ root_path = <<>>
    /\ files = <<>>
    /\ files_data = <<>>
    /\ visited = <<>>
    /\ walked = {}
    /\ stdout = <<Msg("fetching", <<>>), Msg("cleaning", <<>>)>>
    /\ result = "none yet"

SpecClean == InitClean /\ [][CleanUpText]_vars

\* a text holds three line feeds in a row
HasTriple(text) == Occurs(<<NL, NL, NL>>, text)

\* the text with every run of three or more line feeds cut to two, and
\* nothing else changed: a line feed goes when two line feeds precede it
Collapsed(text) ==
    LET kept == {i \in 1..Len(text) :
                    ~(text[i] = NL /\ i >= 3 /\ text[i - 1] = NL /\ text[i - 2] = NL)}
        Nth(k) == CHOOSE i \in kept : Cardinality({j \in kept : j < i}) = k - 1
    IN  [k \in 1..Cardinality(kept) |-> text[Nth(k)]]

(* C6 as stated: clean_up_text cuts every run of three or more line feeds  *)
(* of the output file to two and changes nothing else: afterwards the file *)
(* holds no run of three, a file with at most two line feeds in a row is   *)
(* left as it was, and a second clean_up_text would change nothing.        *)
C6_Cleanup ==
    pc = "done"
    => LET before == fs_at_start[Out].content
           after == fs[Out].content
       IN  /\ after = Collapsed(before)
           /\ ~HasTriple(after)
           /\ ~HasTriple(before) => after = before
           /\ CleanUp(after) = after

\* What does hold: the claim for the files that hold no carriage return.
C6_WithoutCarriageReturns ==
    (pc = "done" /\ CR \notin Range(fs_at_start[Out].content))
    => /\ fs[Out].content = Collapsed(fs_at_start[Out].content)
       /\ ~HasTriple(fs[Out].content)
       /\ CleanUp(fs[Out].content) = fs[Out].content

====
